---- MODULE Spec2Model ----
(***************************************************************************)
(* espresso-engineered: a REST facade (FastAPI handlers + pydantic         *)
(* schemas) over nine tables of a remote table service.                    *)
(*                                                                         *)
(* Values.  A required column holds a raw value (a number or a string).    *)
(* An Optional[T] column holds NULL (Python None, SQL null) or Some(v).    *)
(* Floats, dates and timestamps are kept as opaque sample values.          *)
(***************************************************************************)
EXTENDS Integers, Sequences, FiniteSets, TLC

VARIABLES
    proc,     \* the process: its phase, its environment, the loaded configuration
    tree,     \* which copy of the package is deployed: "app" or "backend"
    scope,    \* the routers the clients of this behaviour send requests to
    tables,   \* the remote tables: entity -> sequence of rows, in backend order
    nextId,   \* the backend's identifier sequence of each table
    req,      \* the request handled last
    resp,     \* its response: status, body (a sequence of records), detail
    calls,    \* the backend calls that request issued, in order
    bb,       \* the brews-by-bean request in flight (it spans several calls)
    posted,   \* history: rows created by a 201 POST and not written since
    gone      \* history: identifiers deleted, with no insert into the table since

vars == <<proc, tree, scope, tables, nextId, req, resp, calls, bb, posted, gone>>

----------------------------------------------------------------------------
(* Bounds of the model *)

\* rows the backend is asked to insert in one behaviour
MaxInserts == 2
\* the same, in the behaviours that exercise the bag-to-brew join
MaxJoinRows == 3
\* rows inserted while requests interleave, beyond the three the tables start with
MaxRaceInserts == 1

----------------------------------------------------------------------------
(* Entities and schemas *)

Entities ==
    {"roaster", "bean", "bag", "grinder", "machine", "barista", "brew",
     "bean_grinder_suggestion", "bag_grinder_suggestion"}

Trees == {"app", "backend"}

\* A router reads and writes its own table only, but for the brew router,
\* whose brews-by-bean route reads the bag table: a behaviour exercises one
\* router, or (SpecJoin below) the bag and brew routers together.
Scopes == {{e} : e \in Entities}

NULL == <<>>
Some(v) == <<v>>

RoastLevel == {"Dark", "Medium Dark", "Medium", "Medium Light", "Light"}

\* The fields of the creation schema that have no default.
Required(e) ==
    CASE e = "roaster" -> {"name"}
      [] e = "bean"    -> {"name", "roaster_id", "roast_level"}
      [] e = "bag"     -> {"name", "bean_id"}
      [] e = "grinder" -> {"name"}
      [] e = "machine" -> {"name"}
      [] e = "barista" -> {"first_name", "last_name", "email"}
      [] e = "brew"    -> {"name", "machine_id", "bag_id", "grinder_id", "barista_id"}
      [] e = "bean_grinder_suggestion" -> {"grinder_id", "bean_id"}
      [] e = "bag_grinder_suggestion"  -> {"grinder_id", "bag_id"}

\* The fields of the creation schema declared Optional[...] = None.
Optional(e) ==
    CASE e = "roaster" -> {}
      [] e = "bean"    -> {"country_of_origin", "tasting_notes", "rating"}
      [] e = "bag"     -> {"roast_date", "weight", "price", "purchase_location", "rating"}
      [] e = "grinder" -> {"user_manual_link", "image", "setting_guide_chart"}
      [] e = "machine" -> {"manufacturer", "user_manual_link", "image"}
      [] e = "barista" -> {}
      [] e = "brew"    -> {"brew_time", "timestamp", "dose", "yield_", "rating",
                           "tasting_notes", "reflections"}
      [] e = "bean_grinder_suggestion" ->
            {"suggestion", "friendly_suggestion", "suggestion_method", "generation_timestamp"}
      [] e = "bag_grinder_suggestion"  ->
            {"suggestion", "friendly_suggestion", "suggestion_method", "generation_timestamp"}

Fields(e) == Required(e) \cup Optional(e)

\* The key under which a field is read from a request body or a backend row.
\* Brew and BrewCreate declare `class Config: fields = {"yield_": "yield"}`;
\* the handlers call model_dump(), so the schemas run under pydantic 2, which
\* drops the `fields` config key: no alias is installed and every field is
\* read under its own name.
Alias(e, f) == f

\* The column of the backend table that holds a field.
Column(e, f) == IF e = "brew" /\ f = "yield_" THEN "yield" ELSE f

Columns(e) == {Column(e, f) : f \in Fields(e)}

\* Fields of the record schema (Bean, Bag, ...) that may be missing from a row.
\* Only the backend copy of Bean gives a default (rating = Field(None, ...)).
Defaulted(t, e) == IF t = "backend" /\ e = "bean" THEN {"rating"} ELSE {}

----------------------------------------------------------------------------
(* Configuration *)

\* The environment variables config.py requires.
Credential == {"SUPABASE_URL", "SUPABASE_KEY"}

\* os.getenv(name): the value, or None when the variable is not set.
getenv(environ, name) == IF name \in environ THEN Some(name) ELSE NULL

\* The process before config.py ran, with the variables `environ` set.
Started(environ) ==
    [phase |-> "start", environ |-> environ, SUPABASE_URL |-> NULL, SUPABASE_KEY |-> NULL,
     threads |-> 1]

\* The process once it listens, started with both variables set.  `threads`
\* is the number of requests its handlers work on at once: 1 serves them one
\* at a time, more lets them interleave.
Serving ==
    [phase |-> "serving", environ |-> Credential,
     SUPABASE_URL |-> getenv(Credential, "SUPABASE_URL"),
     SUPABASE_KEY |-> getenv(Credential, "SUPABASE_KEY"),
     threads |-> 1]

\* Both configuration values hold a credential.
Credentials == proc.SUPABASE_URL # NULL /\ proc.SUPABASE_KEY # NULL

----------------------------------------------------------------------------
(* Field validation *)

ValidEmails == {"ann@example.com", "bob@example.com"}
ValidUrls == {"http://m.example/manual"}

\* Bean.rating / BeanCreate.rating: Field(None, ge=0, le=5) in the backend
\* copy, a plain Optional[int] in the app copy.
RatingOk(t, v) ==
    IF t = "app" THEN TRUE
    ELSE IF v = NULL THEN TRUE ELSE v[1] >= 0 /\ v[1] <= 5

\* The constraints pydantic checks on one field value, beyond its presence.
FieldOk(t, e, f, v) ==
    CASE e = "bean" /\ f = "rating"         -> RatingOk(t, v)
      [] e = "bean" /\ f = "roast_level"    -> v \in RoastLevel
      [] e = "barista" /\ f = "email"       -> v \in ValidEmails
      [] e = "machine" /\ f = "user_manual_link" ->
            IF v = NULL THEN TRUE ELSE v[1] \in ValidUrls
      [] OTHER -> TRUE

\* The value a creation schema gives field f for request body b.
FieldOf(e, f, b) ==
    IF Alias(e, f) \in DOMAIN b
    THEN IF f \in Optional(e) THEN Some(b[Alias(e, f)]) ELSE b[Alias(e, f)]
    ELSE NULL

\* BagCreate(**body), BeanCreate(**body), ...: keys that name no field are
\* ignored, a required field must be present, every field must validate.
CreateValid(t, e, b) ==
    /\ \A f \in Required(e) : Alias(e, f) \in DOMAIN b
    /\ \A f \in Fields(e) : FieldOk(t, e, f, FieldOf(e, f, b))

\* A creation schema that keeps the keys of the body that name no field
\* (model_config extra = "allow"), an id among them.
CreateModel_extra_allow(e, b) ==
    [f \in Fields(e) \cup (DOMAIN b \ {Alias(e, g) : g \in Fields(e)}) |->
        IF f \in Fields(e) THEN FieldOf(e, f, b) ELSE b[f]]

\* A creation schema that forgets the optional fields of the body.
CreateModel_required_only(e, b) ==
    [f \in Fields(e) |-> IF f \in Required(e) THEN FieldOf(e, f, b) ELSE NULL]

CreateModel(e, b) == [f \in Fields(e) |-> FieldOf(e, f, b)]

\* model_dump(): the fields under their own names.
model_dump(m) == m

\* A payload built with model_dump(exclude_none=True): the fields the body
\* left out are not sent (a partial update).
Payload_exclude_none(e, m) ==
    [c \in {Column(e, f) : f \in Required(e) \cup {g \in Optional(e) : m[g] # NULL}} |->
        IF e = "brew" /\ c = "yield" THEN m["yield_"] ELSE m[c]]

\* The payload a create or update handler sends to the backend.  Only the
\* brew handlers rename: brew_dict["yield"] = brew_dict.pop("yield_").
Payload(e, m) ==
    IF e = "brew" /\ "yield_" \in DOMAIN model_dump(m)
    THEN [c \in (DOMAIN model_dump(m) \ {"yield_"}) \cup {"yield"} |->
            IF c = "yield" THEN model_dump(m)["yield_"] ELSE model_dump(m)[c]]
    ELSE model_dump(m)

\* Bag(**row), Brew(**row), ...: the record schema applied to a backend row.
\* Every field without a default must be a key of the row.
RecordValid(t, e, row) ==
    /\ "id" \in DOMAIN row
    /\ \A f \in Fields(e) \ Defaulted(t, e) : Alias(e, f) \in DOMAIN row
    /\ \A f \in Fields(e) :
          Alias(e, f) \in DOMAIN row => FieldOk(t, e, f, row[Alias(e, f)])

Record(e, row) ==
    [f \in Fields(e) \cup {"id"} |->
        IF f = "id" THEN row["id"]
        ELSE IF Alias(e, f) \in DOMAIN row THEN row[Alias(e, f)] ELSE NULL]

----------------------------------------------------------------------------
(* Requests the model sends *)

\* the identifiers and foreign keys requests name: those of the first two
\* rows of a table
Ids == {1, 2}

NoBody == [k \in {} |-> 0]

\* Sample request bodies of each entity: valid ones, one that breaks a field
\* constraint or omits a required field, and ones that carry extra keys.
Bodies(e) ==
    CASE e = "roaster" -> {[name |-> "Onyx"], [name |-> "Sey"], NoBody}
      [] e = "bean" ->
            {[name |-> "Gesha", roaster_id |-> 1, roast_level |-> "Burnt"]}
            \cup {[name |-> "Gesha", roaster_id |-> 1, roast_level |-> "Dark", rating |-> r] :
                    r \in {-1, 5, 6}}
      [] e = "bag" ->
            {[name |-> "250g", bean_id |-> 1],
             [name |-> "1kg", bean_id |-> 2, weight |-> 1000, rating |-> 9],
             [name |-> "250g"]}
      [] e = "grinder" ->
            {[name |-> "Niche"], [name |-> "Niche", image |-> "niche.png", id |-> 7],
             NoBody}
      [] e = "machine" ->
            {[name |-> "Linea"],
             [name |-> "Linea", user_manual_link |-> "http://m.example/manual"],
             [name |-> "Linea", user_manual_link |-> "manual"]}
      [] e = "barista" ->
            {[first_name |-> "Ann", last_name |-> "Lee", email |-> "ann@example.com"],
             [first_name |-> "Bob", last_name |-> "Ray", email |-> "bob@example.com"],
             [first_name |-> "Ann", last_name |-> "Lee", email |-> "ann.example.com"]}
      [] e = "brew" ->
            {[name |-> "shot", machine_id |-> 1, bag_id |-> b, grinder_id |-> 1,
              barista_id |-> 1] : b \in {1, 2}}
            \cup {[name |-> "shot", machine_id |-> 1, bag_id |-> 1, grinder_id |-> 1,
                   barista_id |-> 1, yield |-> 18],
                  [machine_id |-> 1, bag_id |-> 1, grinder_id |-> 1, barista_id |-> 1]}
      [] e = "bean_grinder_suggestion" ->
            {[grinder_id |-> 1, bean_id |-> 1],
             [grinder_id |-> 2, bean_id |-> 1, suggestion |-> 12],
             [bean_id |-> 1]}
      [] e = "bag_grinder_suggestion" ->
            {[grinder_id |-> 1, bag_id |-> 1],
             [grinder_id |-> 2, bag_id |-> 1, suggestion |-> 12],
             [bag_id |-> 1]}

\* The foreign-key columns that have a filtered-list route.
FilterColumns(e) ==
    CASE e = "brew" -> {"barista_id", "bag_id"}
      [] e = "bean_grinder_suggestion" -> {"bean_id", "grinder_id"}
      [] e = "bag_grinder_suggestion"  -> {"bag_id", "grinder_id"}
      [] OTHER -> {}

----------------------------------------------------------------------------
(* The backend table service *)

\* What one backend call can do: answer, or raise with a message.
Msgs == {"connection timed out"}
Outcomes == {"ok"} \cup Msgs

\* What a call through the handle built at startup can do: without the URL or
\* the key no call reaches a table, and every call raises.
Answers == IF Credentials THEN Outcomes ELSE Msgs

\* One backend call of a request: the operation, the message of the exception
\* it raised ("" if none), the number of rows it returned, and the columns of
\* the payload it sent (none for a select or a delete).
Call(op, e, o, n) ==
    [op |-> op, table |-> e, error |-> IF o = "ok" THEN "" ELSE o,
     rows |-> IF o = "ok" THEN n ELSE 0, columns |-> {}]

\* .insert(payload) / .update(payload): a call that sends a payload.
Send(op, e, o, n, payload) == [Call(op, e, o, n) EXCEPT !.columns = DOMAIN payload]

\* .select(...).eq(col, v).execute(): the matching rows, in backend order.
Select(T, e, col, v) == SelectSeq(T[e], LAMBDA r : r[col] = v)

\* .insert(payload).execute(): the row the backend stores and echoes back.
\* The identifier comes from the table's sequence unless the payload names one.
InsertRow(e, payload, id) ==
    [c \in Columns(e) \cup {"id"} |->
        IF c \in DOMAIN payload THEN payload[c]
        ELSE IF c = "id" THEN id ELSE NULL]

\* The backend refuses a payload that names a column the table does not have.
ColumnNotFound == "column not found in the table"

PayloadAccepted(e, payload) == DOMAIN payload \subseteq Columns(e) \cup {"id"}

\* .update(payload).eq("id", i).execute(): the row with the payload's columns replaced.
UpdateRow(row, payload) ==
    [c \in DOMAIN row |-> IF c \in DOMAIN payload THEN payload[c] ELSE row[c]]

\* An update that inserts the row when no row has the identifier (an upsert).
Updated_upsert(T, e, i, payload) ==
    IF \E k \in DOMAIN T[e] : T[e][k]["id"] = i
    THEN [k \in DOMAIN T[e] |->
            IF T[e][k]["id"] = i THEN UpdateRow(T[e][k], payload) ELSE T[e][k]]
    ELSE Append(T[e], InsertRow(e, payload, i))

Updated(T, e, i, payload) ==
    [k \in DOMAIN T[e] |->
        IF T[e][k]["id"] = i THEN UpdateRow(T[e][k], payload) ELSE T[e][k]]

\* .delete().eq("id", i).execute(): the rows that stay.
\* A delete that lost its .eq("id", i) filter: no row stays.
Remaining_unfiltered(T, e, i) == <<>>

\* A delete that reports the rows and leaves them in the table.
Remaining_all(T, e, i) == T[e]

Remaining(T, e, i) == SelectSeq(T[e], LAMBDA r : r["id"] # i)

RECURSIVE Total(_, _)
Total(f, S) ==
    IF S = {} THEN 0
    ELSE LET x == CHOOSE y \in S : TRUE IN f[x] + Total(f, S \ {x})

\* rows inserted so far, over all tables
Inserted == Total([e \in Entities |-> nextId[e] - 1], Entities)

----------------------------------------------------------------------------
(* Responses *)

Response(status, body, detail) == [status |-> status, body |-> body, detail |-> detail]

\* detail="Bag not found", "Brew not found", ...
NotFoundMsg(e) ==
    CASE e = "roaster" -> "Roaster not found" [] e = "bean" -> "Bean not found"
      [] e = "bag" -> "Bag not found" [] e = "grinder" -> "Grinder not found"
      [] e = "machine" -> "Machine not found" [] e = "barista" -> "Barista not found"
      [] e = "brew" -> "Brew not found"
      [] e = "bean_grinder_suggestion" -> "Bean-grinder suggestion not found"
      [] e = "bag_grinder_suggestion"  -> "Bag-grinder suggestion not found"

\* raise HTTPException(status_code=404, detail="Bag not found"), passed on by
\* `except HTTPException: raise`.
\* A handler without that clause: its generic except clause turns the 404 into 500.
NotFound_as_500(e) == Response(500, <<>>, "404: " \o NotFoundMsg(e))

NotFound(e) == Response(404, <<>>, NotFoundMsg(e))

\* except Exception as e: raise HTTPException(status_code=500, detail=str(e))
ServerError(msg) == Response(500, <<>>, msg)

\* The request body failed the creation schema: FastAPI answers before the handler runs.
Unprocessable == Response(422, <<>>, "validation error")

\* str(e) of the ValidationError a record schema raises on a row.
ValidationMsg(e) == "1 validation error for " \o e

\* A list handler that leaves out the rows the record schema rejects.
Rows_skip_invalid(t, e, data, status) ==
    LET valid == SelectSeq(data, LAMBDA r : RecordValid(t, e, r))
    IN  Response(status, [k \in DOMAIN valid |-> Record(e, valid[k])], "")

\* A list handler that treats an empty result as not-found.
Rows_empty_is_404(t, e, data, status) ==
    IF data = <<>> THEN Response(404, <<>>, "not found")
    ELSE IF \A k \in DOMAIN data : RecordValid(t, e, data[k])
    THEN Response(status, [k \in DOMAIN data |-> Record(e, data[k])], "")
    ELSE ServerError(ValidationMsg(e))

\* [Bag(**r) for r in response.data]: the records, or the ValidationError.
Rows(t, e, data, status) ==
    IF \A k \in DOMAIN data : RecordValid(t, e, data[k])
    THEN Response(status, [k \in DOMAIN data |-> Record(e, data[k])], "")
    ELSE ServerError(ValidationMsg(e))

\* Bag(**response.data[0])
FirstRow(t, e, data, status) == Rows(t, e, SubSeq(data, 1, 1), status)

----------------------------------------------------------------------------
(* Initial state *)

\* `seen` and `dirty` are history: what the bag-to-brew join of the request's
\* bean was at each instant between its first and its last call, and whether
\* a write changed a table between them.
Idle ==
    [pc |-> "idle", bean_id |-> 0, bag_ids |-> <<>>, idx |-> 0, brews |-> <<>>,
     calls |-> <<>>, seen |-> {}, dirty |-> FALSE]

Request(op, e, i, col, b) == [op |-> op, entity |-> e, id |-> i, col |-> col, body |-> b]

Init ==
    /\ proc = Serving
    /\ tree \in Trees
    /\ scope \in Scopes
    \* the two copies differ in the Bean schemas only
    /\ tree = "app" => scope = {"bean"}
    /\ tables = [e \in Entities |-> <<>>]
    /\ nextId = [e \in Entities |-> 1]
    /\ req = Request("none", "none", 0, "", NoBody)
    /\ resp = Response(0, <<>>, "")
    /\ calls = <<>>
    /\ bb = Idle
    /\ posted = [x \in {} |-> NoBody]
    /\ gone = {}

\* A handler runs while the process serves and, when requests are served one
\* at a time, while no brews-by-bean request is between its calls.
Free ==
    /\ proc.phase = "serving"
    /\ IF proc.threads = 1 THEN bb.pc = "idle" ELSE TRUE

\* The identifiers of the brews of the bags of a bean in tables T, bag by bag.
RECURSIVE BrewIdsFrom(_, _, _)
BrewIdsFrom(T, bags, k) ==
    IF k > Len(bags) THEN <<>>
    ELSE LET brews == Select(T, "brew", "bag_id", bags[k]["id"])
         IN  [j \in DOMAIN brews |-> brews[j]["id"]] \o BrewIdsFrom(T, bags, k + 1)

BrewIds(T, bean_id) == BrewIdsFrom(T, Select(T, "bag", "bean_id", bean_id), 1)

\* A write leaves tables T behind: a brews-by-bean request between its calls
\* has one more instant to its history.
Observed(T) ==
    IF bb.pc = "loop"
    THEN [bb EXCEPT !.seen = @ \cup {BrewIds(T, bb.bean_id)},
                    !.dirty = IF T # tables THEN TRUE ELSE @]
    ELSE Idle

Forget(e, i) == [x \in DOMAIN posted \ {<<e, i>>} |-> posted[x]]

----------------------------------------------------------------------------
(* The handlers that issue one backend call *)

\* A list handler that issues the query a second time when the first raises.
get_all_retry(e) ==
    \E o \in Answers : \E o2 \in Answers :
        /\ Free
        /\ req' = Request("list", e, 0, "", NoBody)
        /\ calls' = IF o = "ok" THEN <<Call("select", e, o, Len(tables[e]))>>
                     ELSE <<Call("select", e, o, 0), Call("select", e, o2, Len(tables[e]))>>
        /\ resp' = IF o = "ok" \/ o2 = "ok" THEN Rows(tree, e, tables[e], 200)
                    ELSE ServerError(o2)
        /\ UNCHANGED <<proc, tree, scope, tables, nextId, bb, posted, gone>>

\* get_bags, get_brews, ...: GET /
get_all(e) ==
    \E o \in Answers :
        /\ Free
        /\ req' = Request("list", e, 0, "", NoBody)
        /\ calls' = <<Call("select", e, o, Len(tables[e]))>>
        /\ resp' = IF o # "ok" THEN ServerError(o) ELSE Rows(tree, e, tables[e], 200)
        /\ UNCHANGED <<proc, tree, scope, tables, nextId, bb, posted, gone>>

\* get_brews_by_bag, get_suggestions_by_grinder, ...: GET /{parent}/{parent_id}
get_filtered(e, col, v) ==
    \E o \in Answers :
        /\ Free
        /\ req' = Request("filter", e, v, col, NoBody)
        /\ calls' = <<Call("select", e, o, Len(Select(tables, e, col, v)))>>
        /\ resp' = IF o # "ok" THEN ServerError(o)
                   ELSE Rows(tree, e, Select(tables, e, col, v), 200)
        /\ UNCHANGED <<proc, tree, scope, tables, nextId, bb, posted, gone>>

\* get_bag, get_brew, ...: GET /{id}
get_by_id(e, i) ==
    \E o \in Answers :
        /\ Free
        /\ req' = Request("get", e, i, "", NoBody)
        /\ calls' = <<Call("select", e, o, Len(Select(tables, e, "id", i)))>>
        /\ resp' = IF o # "ok" THEN ServerError(o)
                   ELSE IF Select(tables, e, "id", i) = <<>> THEN NotFound(e)
                   ELSE FirstRow(tree, e, Select(tables, e, "id", i), 200)
        /\ UNCHANGED <<proc, tree, scope, tables, nextId, bb, posted, gone>>

\* A body the creation schema rejects never reaches a handler.
rejected(op, e, i, b) ==
    /\ Free
    /\ ~CreateValid(tree, e, b)
    /\ req' = Request(op, e, i, "", b)
    /\ calls' = <<>>
    /\ resp' = Unprocessable
    /\ UNCHANGED <<proc, tree, scope, tables, nextId, bb, posted, gone>>

\* create_bag, create_brew, ...: POST /
create(e, b, budget) ==
    /\ Free
    /\ CreateValid(tree, e, b)
    /\ \E o \in Answers :
        LET payload == Payload(e, CreateModel(e, b))
            row == InsertRow(e, payload, nextId[e])
            stored == o = "ok" /\ PayloadAccepted(e, payload)
            out == IF o = "ok" /\ ~PayloadAccepted(e, payload) THEN ColumnNotFound ELSE o
            answer == IF out # "ok" THEN ServerError(out)
                      ELSE FirstRow(tree, e, <<row>>, 201)
        IN  /\ stored => Inserted < budget
            /\ req' = Request("create", e, 0, "", b)
            /\ calls' = <<Send("insert", e, out, 1, payload)>>
            /\ resp' = answer
            /\ tables' = IF stored THEN [tables EXCEPT ![e] = Append(@, row)] ELSE tables
            /\ nextId' = IF stored THEN [nextId EXCEPT ![e] = @ + 1] ELSE nextId
            /\ posted' = IF answer.status = 201
                         THEN [x \in DOMAIN posted \cup {<<e, nextId[e]>>} |->
                                 IF x = <<e, nextId[e]>> THEN b ELSE posted[x]]
                         ELSE posted
            /\ gone' = IF stored THEN {x \in gone : x[1] # e} ELSE gone
            /\ bb' = Observed(tables')
            /\ UNCHANGED <<proc, tree, scope>>

\* update_bag, update_brew, ...: PUT /{id}
update(e, i, b) ==
    /\ Free
    /\ CreateValid(tree, e, b)
    /\ \E o \in Answers :
        LET payload == Payload(e, CreateModel(e, b))
            applied == o = "ok" /\ PayloadAccepted(e, payload)
            out == IF o = "ok" /\ ~PayloadAccepted(e, payload) THEN ColumnNotFound ELSE o
            after == IF applied THEN [tables EXCEPT ![e] = Updated(tables, e, i, payload)]
                     ELSE tables
            data == Select(after, e, "id", i)
        IN  /\ req' = Request("update", e, i, "", b)
            /\ calls' = <<Send("update", e, out, Len(data), payload)>>
            /\ resp' = IF out # "ok" THEN ServerError(out)
                       ELSE IF data = <<>> THEN NotFound(e)
                       ELSE FirstRow(tree, e, data, 200)
            /\ tables' = after
            /\ posted' = IF applied THEN Forget(e, i) ELSE posted
            /\ bb' = Observed(tables')
            /\ UNCHANGED <<proc, tree, scope, nextId, gone>>

\* delete_roaster: the result of the call is not looked at, and the except
\* clause answers with a fixed detail.
delete_roaster(i) ==
    \E o \in Answers :
        /\ Free
        /\ req' = Request("delete", "roaster", i, "", NoBody)
        /\ calls' = <<Call("delete", "roaster", o, Len(Select(tables, "roaster", "id", i)))>>
        /\ resp' = IF o # "ok" THEN ServerError("Roaster not found or delete failed.")
                   ELSE Response(204, <<>>, "")
        /\ tables' = IF o = "ok" THEN [tables EXCEPT !["roaster"] = Remaining(tables, "roaster", i)]
                     ELSE tables
        /\ posted' = IF o = "ok" THEN Forget("roaster", i) ELSE posted
        /\ gone' = IF o = "ok" THEN gone \cup {<<"roaster", i>>} ELSE gone
        /\ bb' = Observed(tables')
        /\ UNCHANGED <<proc, tree, scope, nextId>>

\* delete_bag, delete_brew, ...: DELETE /{id}
delete(e, i) ==
    /\ Free
    /\ e # "roaster"
    /\ \E o \in Answers :
        LET data == Select(tables, e, "id", i) IN
        /\ req' = Request("delete", e, i, "", NoBody)
        /\ calls' = <<Call("delete", e, o, Len(data))>>
        /\ resp' = IF o # "ok" THEN ServerError(o)
                   ELSE IF data = <<>> THEN NotFound(e)
                   ELSE Response(204, <<>>, "")
        /\ tables' = IF o = "ok" THEN [tables EXCEPT ![e] = Remaining(tables, e, i)] ELSE tables
        /\ posted' = IF o = "ok" THEN Forget(e, i) ELSE posted
        /\ gone' = IF o = "ok" /\ data # <<>> THEN gone \cup {<<e, i>>} ELSE gone
        /\ bb' = Observed(tables')
        /\ UNCHANGED <<proc, tree, scope, nextId>>

----------------------------------------------------------------------------
(* get_brews_by_bean: GET /brews/bean/{bean_id}, one bag query and then one  *)
(* brew query per bag; other requests may run between its calls.            *)

\* The request ends: its response and its calls become the last ones seen.
Finished(bean_id, r, cs) ==
    /\ req' = Request("brews_by_bean", "brew", bean_id, "bean_id", NoBody)
    /\ resp' = r
    /\ calls' = cs
    /\ bb' = [Idle EXCEPT !.seen = IF bb.pc = "loop" THEN bb.seen
                                  ELSE {BrewIds(tables, bean_id)},
                           !.dirty = bb.dirty]

\* bags_response = supabase.table("bag").select("id").eq("bean_id", bean_id).execute()
get_brews_by_bean_bags(bean_id) ==
    /\ Free
    /\ bb.pc = "idle"
    /\ \E o \in Answers :
        LET data == Select(tables, "bag", "bean_id", bean_id)
            cs == <<Call("select", "bag", o, Len(data))>>
        IN  IF o # "ok" THEN Finished(bean_id, ServerError(o), cs)
            ELSE IF data = <<>> THEN Finished(bean_id, Response(200, <<>>, ""), cs)
            ELSE /\ bb' = [Idle EXCEPT !.pc = "loop", !.bean_id = bean_id, !.calls = cs,
                                       !.idx = 1,
                                       !.seen = {BrewIds(tables, bean_id)},
                                       !.bag_ids = [k \in DOMAIN data |-> data[k]["id"]]]
                 /\ UNCHANGED <<req, resp, calls>>
    /\ UNCHANGED <<proc, tree, scope, tables, nextId, posted, gone>>

\* A loop with its try block inside: a bag whose brew query raises, or whose
\* rows fail the record schema, is skipped and the loop goes on.
get_brews_by_bean_brews_continue ==
    /\ bb.pc = "loop"
    /\ \E o \in Answers :
        LET data == Select(tables, "brew", "bag_id", bb.bag_ids[bb.idx])
            cs == Append(bb.calls, Call("select", "brew", o, Len(data)))
            got == Rows(tree, "brew", data, 200)
            brews == IF o = "ok" /\ got.status = 200 THEN bb.brews \o got.body ELSE bb.brews
        IN  IF bb.idx = Len(bb.bag_ids)
            THEN Finished(bb.bean_id, Response(200, brews, ""), cs)
            ELSE /\ bb' = [bb EXCEPT !.idx = @ + 1, !.brews = brews, !.calls = cs]
                 /\ UNCHANGED <<req, resp, calls>>
    /\ UNCHANGED <<proc, tree, scope, tables, nextId, posted, gone>>

\* One turn of `for bag_id in bag_ids`, and the return after the last one.
get_brews_by_bean_brews ==
    /\ bb.pc = "loop"
    /\ \E o \in Answers :
        LET data == Select(tables, "brew", "bag_id", bb.bag_ids[bb.idx])
            cs == Append(bb.calls, Call("select", "brew", o, Len(data)))
            got == Rows(tree, "brew", data, 200)
            brews == bb.brews \o got.body
        IN  IF o # "ok" THEN Finished(bb.bean_id, ServerError(o), cs)
            ELSE IF got.status # 200 THEN Finished(bb.bean_id, got, cs)
            ELSE IF bb.idx = Len(bb.bag_ids)
            THEN Finished(bb.bean_id, Response(200, brews, ""), cs)
            ELSE /\ bb' = [bb EXCEPT !.idx = @ + 1, !.brews = brews, !.calls = cs]
                 /\ UNCHANGED <<req, resp, calls>>
    /\ UNCHANGED <<proc, tree, scope, tables, nextId, posted, gone>>

----------------------------------------------------------------------------
(* Specification: every handler of every entity *)

Next ==
    \/ \E e \in scope : get_all(e)
    \/ \E e \in scope : \E col \in FilterColumns(e) : \E v \in Ids : get_filtered(e, col, v)
    \/ \E e \in scope : \E i \in Ids : get_by_id(e, i)
    \/ \E e \in scope : \E b \in Bodies(e) : rejected("create", e, 0, b)
    \/ \E e \in scope : \E i \in Ids : \E b \in Bodies(e) : rejected("update", e, i, b)
    \/ \E e \in scope : \E b \in Bodies(e) : create(e, b, MaxInserts)
    \/ \E e \in scope : \E i \in Ids : \E b \in Bodies(e) : update(e, i, b)
    \/ \E i \in Ids : "roaster" \in scope /\ delete_roaster(i)
    \/ \E e \in scope : \E i \in Ids : delete(e, i)

Spec == Init /\ [][Next]_vars

----------------------------------------------------------------------------
(* Specification: the bag and brew routers together, with the brews-by-bean *)
(* route and enough rows for its join; requests are served one at a time.   *)

InitJoin ==
    /\ proc = Serving
    /\ tree = "backend"
    /\ scope = {"bag", "brew"}
    /\ tables = [e \in Entities |-> <<>>]
    /\ nextId = [e \in Entities |-> 1]
    /\ req = Request("none", "none", 0, "", NoBody)
    /\ resp = Response(0, <<>>, "")
    /\ calls = <<>>
    /\ bb = Idle
    /\ posted = [x \in {} |-> NoBody]
    /\ gone = {}

NextJoin ==
    \/ \E e \in scope : \E b \in Bodies(e) : create(e, b, MaxJoinRows)
    \/ \E e \in scope : \E i \in 1..MaxJoinRows : delete(e, i)
    \/ \E bean_id \in Ids : get_brews_by_bean_bags(bean_id)
    \/ get_brews_by_bean_brews

SpecJoin == InitJoin /\ [][NextJoin]_vars

----------------------------------------------------------------------------
(* Specification: every route of the bag and brew routers, reads and the    *)
(* brews-by-bean route included, with requests served one at a time.         *)

NextAll ==
    \/ \E e \in scope : get_all(e)
    \/ \E e \in scope : \E col \in FilterColumns(e) : \E v \in Ids : get_filtered(e, col, v)
    \/ \E e \in scope : \E i \in Ids : get_by_id(e, i)
    \/ \E e \in scope : \E b \in Bodies(e) : create(e, b, MaxInserts)
    \/ \E e \in scope : \E i \in Ids : \E b \in Bodies(e) : update(e, i, b)
    \/ \E e \in scope : \E i \in Ids : delete(e, i)
    \/ \E bean_id \in Ids : get_brews_by_bean_bags(bean_id)
    \/ get_brews_by_bean_brews

SpecAll == InitJoin /\ [][NextAll]_vars

----------------------------------------------------------------------------
(* Specification: the bag and brew routers with requests that interleave:   *)
(* the handlers are plain `def` functions, which the framework runs on a    *)
(* pool of threads, so a write can run between two calls of brews-by-bean.  *)
(* The tables start with two bags of bean 1 and a brew of the second bag.   *)

\* The row a POST of body b stores as row `id` of an empty table.
Stored(e, b, id) == InsertRow(e, Payload(e, CreateModel(e, b)), id)

InitRace ==
    /\ proc = [Serving EXCEPT !.threads = 2]
    /\ tree = "backend"
    /\ scope = {"bag", "brew"}
    /\ tables = [e \in Entities |->
                    IF e = "bag"
                    THEN <<Stored("bag", [name |-> "250g", bean_id |-> 1], 1),
                           Stored("bag", [name |-> "250g", bean_id |-> 1], 2)>>
                    ELSE IF e = "brew"
                    THEN <<Stored("brew", [name |-> "shot", machine_id |-> 1, bag_id |-> 2,
                                           grinder_id |-> 1, barista_id |-> 1], 1)>>
                    ELSE <<>>]
    /\ nextId = [e \in Entities |-> IF e = "bag" THEN 3 ELSE IF e = "brew" THEN 2 ELSE 1]
    /\ req = Request("none", "none", 0, "", NoBody)
    /\ resp = Response(0, <<>>, "")
    /\ calls = <<>>
    /\ bb = Idle
    /\ posted = [x \in {} |-> NoBody]
    /\ gone = {}

NextRace ==
    \/ \E b \in Bodies("brew") : create("brew", b, 3 + MaxRaceInserts)
    \/ \E e \in scope : \E i \in Ids : delete(e, i)
    \/ \E bean_id \in Ids : get_brews_by_bean_bags(bean_id)
    \/ get_brews_by_bean_brews

SpecRace == InitRace /\ [][NextRace]_vars

----------------------------------------------------------------------------
(* Specification: the process from its start.  config.py runs when the      *)
(* client module, which every router imports, is loaded; run() then starts  *)
(* the listener and the roaster router serves requests.                     *)

\* src/app/config.py: the values are whatever os.getenv returns, None included.
config_app(p) ==
    [p EXCEPT !.phase = "configured",
              !.SUPABASE_URL = getenv(p.environ, "SUPABASE_URL"),
              !.SUPABASE_KEY = getenv(p.environ, "SUPABASE_KEY")]

\* src/backend/app/config.py: raise ValueError(...) on a variable that is not set.
config_backend(p) ==
    IF getenv(p.environ, "SUPABASE_URL") = NULL
    THEN [p EXCEPT !.phase = "failed"]
    ELSE IF getenv(p.environ, "SUPABASE_KEY") = NULL
    THEN [p EXCEPT !.phase = "failed",
                   !.SUPABASE_URL = getenv(p.environ, "SUPABASE_URL")]
    ELSE config_app(p)

\* The configuration module of the deployed copy is loaded.
load_config ==
    /\ proc.phase = "start"
    /\ proc' = IF tree = "backend" THEN config_backend(proc) ELSE config_app(proc)
    /\ UNCHANGED <<tree, scope, tables, nextId, req, resp, calls, bb, posted, gone>>

\* start.py, run(): uvicorn.run("app.main:app", ...)
run ==
    /\ proc.phase = "configured"
    /\ proc' = [proc EXCEPT !.phase = "serving"]
    /\ UNCHANGED <<tree, scope, tables, nextId, req, resp, calls, bb, posted, gone>>

InitStart ==
    /\ \E environ \in SUBSET Credential : proc = Started(environ)
    /\ tree \in Trees
    /\ scope = {"roaster"}
    /\ tables = [e \in Entities |-> <<>>]
    /\ nextId = [e \in Entities |-> 1]
    /\ req = Request("none", "none", 0, "", NoBody)
    /\ resp = Response(0, <<>>, "")
    /\ calls = <<>>
    /\ bb = Idle
    /\ posted = [x \in {} |-> NoBody]
    /\ gone = {}

NextStart ==
    \/ load_config
    \/ run
    \/ \E e \in scope : get_all(e)
    \/ \E e \in scope : \E i \in Ids : get_by_id(e, i)
    \/ \E e \in scope : \E b \in Bodies(e) : rejected("create", e, 0, b)
    \/ \E e \in scope : \E b \in Bodies(e) : create(e, b, MaxInserts)
    \/ \E e \in scope : \E i \in Ids : \E b \in Bodies(e) : update(e, i, b)
    \/ \E i \in Ids : delete_roaster(i)

SpecStart == InitStart /\ [][NextStart]_vars

----------------------------------------------------------------------------
(* Properties *)

\* No backend call of the last request raised.
NoError == \A k \in DOMAIN calls : calls[k].error = ""

\* A response field carries the value a body gave it.
Carries(e, f, got, sent) == IF f \in Optional(e) THEN got = Some(sent) ELSE got = sent

\* C1: a GET-by-id of a row created by a 201 POST and not written since
\* answers 200 with the posted fields, the assigned identifier, and null in
\* every field the body left out.
C1_PostThenGet ==
    (req.op = "get" /\ <<req.entity, req.id>> \in DOMAIN posted /\ NoError) =>
        LET b == posted[<<req.entity, req.id>>] IN
        /\ resp.status = 200
        /\ Len(resp.body) = 1
        /\ resp.body[1]["id"] = req.id
        /\ \A f \in DOMAIN b \ {"id"} :
              /\ f \in DOMAIN resp.body[1]
              /\ Carries(req.entity, f, resp.body[1][f], b[f])
        /\ \A f \in DOMAIN resp.body[1] \ (DOMAIN b \cup {"id"}) : resp.body[1][f] = NULL

\* C1 happens: such a GET returned a record with an optional field set.
C1_Witness ==
    /\ req.op = "get" /\ <<req.entity, req.id>> \in DOMAIN posted
    /\ resp.status = 200
    /\ \E f \in Optional(req.entity) : resp.body[1][f] # NULL

\* C2: a PUT with a valid body on an identifier that matches no row answers
\* 404 and leaves every table as it was.
C2_PutMissing ==
    [][(/\ req'.op = "update"
        /\ calls' # <<>> /\ calls'[1].error = ""
        /\ Select(tables, req'.entity, "id", req'.id) = <<>>)
       => (resp'.status = 404 /\ tables' = tables /\ nextId' = nextId)]_vars

\* C2 happens: a PUT was answered 404 while its table held other rows.
C2_Witness ==
    /\ req.op = "update" /\ resp.status = 404
    /\ tables[req.entity] # <<>>

\* C3: a DELETE on an identifier that matches no row answers 404.
C3_DeleteMissing ==
    (req.op = "delete" /\ NoError /\ calls[1].rows = 0) => resp.status = 404

\* C4: after a DELETE of an identifier succeeded, and for as long as nothing
\* is inserted into that table, a GET-by-id of it answers 404.
C4_DeleteThenGet ==
    (req.op = "get" /\ <<req.entity, req.id>> \in gone /\ NoError) => resp.status = 404

\* C4 happens: a GET of a deleted identifier, with a row left in the table.
C4_Witness ==
    /\ req.op = "get" /\ <<req.entity, req.id>> \in gone /\ resp.status = 404
    /\ tables[req.entity] # <<>>

\* C5: a bean creation whose rating is outside 0..5 is answered with a
\* 4xx validation error and issues no backend call.
C5_BeanRatingRejected ==
    (/\ req.op = "create" /\ req.entity = "bean"
     /\ "rating" \in DOMAIN req.body
     /\ (req.body["rating"] < 0 \/ req.body["rating"] > 5))
    => (resp.status \in 400..499 /\ calls = <<>>)

\* C6: a brew create or update whose body carries "yield": v stores v in the
\* yield column and answers with "yield": v, never with yield_.
C6_YieldRoundTrip ==
    (/\ req.entity = "brew" /\ req.op \in {"create", "update"}
     /\ "yield" \in DOMAIN req.body
     /\ calls # <<>> /\ NoError /\ calls[1].rows > 0)
    => LET target == IF req.op = "create" THEN nextId["brew"] - 1 ELSE req.id
           stored == Select(tables, "brew", "id", target)
       IN  /\ Len(stored) = 1
           /\ stored[1]["yield"] = Some(req.body["yield"])
           /\ resp.status \in {200, 201}
           /\ Len(resp.body) = 1
           /\ "yield" \in DOMAIN resp.body[1]
           /\ "yield_" \notin DOMAIN resp.body[1]
           /\ resp.body[1]["yield"] = Some(req.body["yield"])

\* C7: a brews-by-bean request issues one bag query and then one brew query
\* per bag row that query returned; with no bag row it answers 200 with an
\* empty array and issues no brew query.
C7_OneBrewQueryPerBag ==
    (req.op = "brews_by_bean" /\ NoError) =>
        /\ calls[1].op = "select" /\ calls[1].table = "bag"
        /\ Len(calls) = 1 + calls[1].rows
        /\ \A k \in 2..Len(calls) : calls[k].op = "select" /\ calls[k].table = "brew"
        /\ calls[1].rows = 0 => (resp.status = 200 /\ resp.body = <<>>)

\* The brews of the bags of a bean, bag by bag in backend order.
RECURSIVE JoinFrom(_, _)
JoinFrom(bags, k) ==
    IF k > Len(bags) THEN <<>>
    ELSE Select(tables, "brew", "bag_id", bags[k]["id"]) \o JoinFrom(bags, k + 1)

Join(bean_id) == JoinFrom(Select(tables, "bag", "bean_id", bean_id), 1)

\* C8: with requests served one at a time, brews-by-bean answers 200 with
\* exactly the brews of the bean's bags, in bag order and then brew order.
C8_BrewsByBeanIsJoin ==
    (req.op = "brews_by_bean" /\ NoError) =>
        /\ resp.status = 200
        /\ [k \in DOMAIN resp.body |-> resp.body[k]["id"]]
             = [k \in DOMAIN Join(req.id) |-> Join(req.id)[k]["id"]]

\* C9: a list or a filtered list that matches no row answers 200 with an
\* empty array, and never 404 (500 if the backend call raises).
C9_EmptyList ==
    (req.op \in {"list", "filter"} /\ calls[1].rows = 0) =>
        /\ resp.status # 404
        /\ NoError => (resp.status = 200 /\ resp.body = <<>>)

\* C9 happens: a filtered list matched no row of a table that holds rows.
C9_Witness ==
    /\ req.op = "filter" /\ NoError /\ calls[1].rows = 0
    /\ tables[req.entity] # <<>>
    /\ resp.status = 200

\* C10: when a backend call raises, the response is 500 and its detail is
\* the message of the exception.
C10_ErrorVerbatim ==
    \A k \in DOMAIN calls :
        calls[k].error # "" => (resp.status = 500 /\ resp.detail = calls[k].error)

\* The statuses of a served request: the success statuses, not-found, the
\* rejection of a body by the creation schema, and the server error.
Success == {200, 201, 204}

C12_MissingCredentialFailsStartup ==
    /\ proc.phase \in {"configured", "serving"} => proc.environ = Credential
    /\ req.op # "none" => Credentials

\* C13: after a PUT answered 200, the row of that identifier holds, in every
\* creatable column, the value the request body gave it, and null in every
\* optional column the body left out; the response is that row.
C13_PutReplaces ==
    (req.op = "update" /\ resp.status = 200) =>
        LET e == req.entity
            b == req.body
            stored == Select(tables, e, "id", req.id)
        IN  /\ Len(stored) = 1
            /\ \A f \in Fields(e) :
                  IF Column(e, f) \in DOMAIN b
                  THEN Carries(e, f, stored[1][Column(e, f)], b[Column(e, f)])
                  ELSE stored[1][Column(e, f)] = NULL
            /\ Len(resp.body) = 1
            /\ resp.body[1]["id"] = req.id
            /\ \A f \in Fields(e) : resp.body[1][f] = stored[1][Column(e, f)]

\* C13 happens: a PUT was answered 200 with a body that left an optional
\* field out and gave a required field a value, beside another row.
C13_Witness ==
    /\ req.op = "update" /\ resp.status = 200
    /\ Len(tables[req.entity]) > 1
    /\ \E f \in Optional(req.entity) :
          Column(req.entity, f) \notin DOMAIN req.body /\ resp.body[1][f] = NULL

\* C14: no create or update payload sent to the backend names the id column,
\* and no POST or PUT changes the identifier of a row the table already holds
\* (nor its place in the table).
C14_IdsImmutable ==
    [][req'.op \in {"create", "update"} =>
        /\ \A k \in DOMAIN calls' : "id" \notin calls'[k].columns
        /\ \A e \in Entities : \A k \in DOMAIN tables[e] :
              /\ k \in DOMAIN tables'[e]
              /\ tables'[e][k]["id"] = tables[e][k]["id"]]_vars

\* C14 happens: a body that carried an id was stored, and the row answered
\* has the identifier of the table's sequence, not the body's.
C14_Witness ==
    /\ req.op \in {"create", "update"} /\ "id" \in DOMAIN req.body
    /\ calls # <<>> /\ NoError /\ calls[1].columns # {}
    /\ resp.status \in {200, 201}
    /\ resp.body[1]["id"] # req.body["id"]
    /\ \A k \in DOMAIN tables[req.entity] : tables[req.entity][k]["id"] # req.body["id"]

\* The identifiers of the brews a response lists.
Listed == [k \in DOMAIN resp.body |-> resp.body[k]["id"]]

\* C15: brews-by-bean is not atomic.  A 200 answer that is the join of the
\* tables at no instant of the request happens (the witness), and happens
\* only when a write ran between two of the request's calls: a request no
\* write interleaved with answers the one join it saw.
C15_NotAtomic ==
    (req.op = "brews_by_bean" /\ resp.status = 200 /\ bb.pc = "idle"
     /\ bb.seen # {} /\ Listed \notin bb.seen)
    => bb.dirty

\* C15 happens: a request answered 200 with a list that the join of its
\* bean's bags and brews was at no instant between its first and last call.
C15_Witness ==
    /\ req.op = "brews_by_bean" /\ resp.status = 200 /\ bb.pc = "idle"
    /\ bb.seen # {} /\ Listed \notin bb.seen
    /\ bb.dirty

\* The backend operation each kind of request issues.
Operation(op) ==
    CASE op \in {"list", "filter", "get"} -> "select"
      [] op = "create" -> "insert"
      [] op = "update" -> "update"
      [] op = "delete" -> "delete"

Failed(k) ==
    IF calls[k].error # "" THEN TRUE
    ELSE IF k = 1 THEN FALSE
    ELSE LET bags == Select(tables, "bag", "bean_id", req.id)
             data == Select(tables, "brew", "bag_id", bags[k - 1]["id"])
         IN  \E j \in DOMAIN data : ~RecordValid(tree, "brew", data[j])

\* C17: when the bag query or a brew query of a brews-by-bean request raises,
\* or a brew row fails the record schema, the request ends 500 with no brew
\* in its answer, and that call is its last: no brew query follows it.
C17_FailureEndsRequest ==
    req.op = "brews_by_bean" =>
        /\ \A k \in DOMAIN calls :
              Failed(k) => (resp.status = 500 /\ resp.body = <<>> /\ k = Len(calls))
        /\ resp.status = 500 => Failed(Len(calls))

\* C17 happens: a brew query that was not the last bag's failed, and the
\* request ended 500 without the queries of the bags after it.
C17_Witness ==
    /\ req.op = "brews_by_bean" /\ resp.status = 500
    /\ Len(calls) > 1 /\ Len(calls) < 1 + calls[1].rows
    /\ Failed(Len(calls))

\* The rows of table e other than the row of identifier i, in T.
Others(T, e, i) == SelectSeq(T[e], LAMBDA r : r["id"] # i)

\* C18: a list, filtered-list, get-by-id or brews-by-bean step leaves every
\* table as it was; a PUT or DELETE on identifier i of an entity leaves every
\* other table, and every other row of its own table, as it was (a deleted
\* bag takes no brew with it), and inserts nothing.
C18_Frame ==
    [][/\ (req'.op \in {"list", "filter", "get", "brews_by_bean"} \/ bb'.pc = "loop")
          => (tables' = tables /\ nextId' = nextId)
       /\ req'.op \in {"update", "delete"} =>
             /\ \A e \in Entities \ {req'.entity} : tables'[e] = tables[e]
             /\ Others(tables', req'.entity, req'.id) = Others(tables, req'.entity, req'.id)
             /\ Len(tables'[req'.entity]) <= Len(tables[req'.entity])
             /\ nextId' = nextId]_vars

\* C18 happens: a bag was deleted and a brew of that bag is still in the
\* brew table.
C18_Witness ==
    /\ req.op = "delete" /\ req.entity = "bag" /\ resp.status = 204
    /\ \E k \in DOMAIN tables["brew"] : tables["brew"][k]["bag_id"] = req.id

====
